---------------------------- MODULE Spec2Model ----------------------------
(***************************************************************************)
(* A model of libforth.c: the FORTH virtual machine image, the compiler    *)
(* (compile), the dictionary lookup (find), the tokenizer, the threaded    *)
(* code interpreter of forth_run with all its primitives, and the host     *)
(* interface (forth_init, forth_eval, forth_run, forth_push, forth_pop).   *)
(*                                                                         *)
(* The image o->m is a calloc'ed array of core_size 16-bit cells.  It is   *)
(* kept as a function from the indices of the cells written so far to      *)
(* their values; a cell outside that domain still holds the 0 calloc gave  *)
(* it.  An access the C code does not bounds-check, at an index outside    *)
(* [0, core_size), is undefined behaviour: the model stops in at = "ub".   *)
(***************************************************************************)
EXTENDS Integers, Sequences, FiniteSets, TLC

(***************************************************************************)
(* Constants of libforth.c                                                 *)
(***************************************************************************)
UINT16_MAX == 65535

\* forth_cell_t is an unsigned 16-bit integer: cell arithmetic is modulo CellMod
CellMod == UINT16_MAX + 1

\* sizeof(forth_cell_t): the type is declared in libforth.h; libforth.c sizes
\* the image by UINT16_MAX and prints cells as unsigned shorts (%hx, %hu)
CellBytes == 2

CORE_SIZE == (UINT16_MAX + 1) \div 2

BLOCK_SIZE == 1024

STRING_OFFSET == 32

MAX_WORD_LENGTH == 32

DICTIONARY_START == STRING_OFFSET + MAX_WORD_LENGTH

WORD_LENGTH_OFFSET == 8

INSTRUCTION_MASK == 127

EOF == -1

\* enum registers
DIC == 0

RSTK == 1

\* STATE (a reserved word of TLA+, hence the underscore)
STATE_ == 8

HEX == 9

PWD == 10

INFO == 11

\* enum instructions, in the order of the enum
instructions ==
  << "PUSH", "COMPILE", "RUN", "DEFINE", "IMMEDIATE", "COMMENT", "READ", "LOAD",
     "STORE", "SUB", "ADD", "AND", "OR", "XOR", "INV", "SHL", "SHR", "MUL",
     "LESS", "EXIT", "EMIT", "KEY", "FROMR", "TOR", "JMP", "JMPZ", "PNUM",
     "QUOTE", "COMMA", "EQUAL", "SWAP", "DUP", "DROP", "OVER", "TAIL", "BSAVE",
     "BLOAD", "FIND", "PRINT", "PSTK", "LAST" >>

\* the value of an enumerator: its position in the enum, from 0
Op(name) == (CHOOSE i \in 1..Len(instructions) : instructions[i] = name) - 1

PUSH == Op("PUSH")

COMPILE == Op("COMPILE")

RUN == Op("RUN")

\* DEFINE (a reserved word of TLA+, hence the underscore)
DEFINE_ == Op("DEFINE")

IMMEDIATE == Op("IMMEDIATE")

COMMENT == Op("COMMENT")

READ == Op("READ")

LAST == Op("LAST")

\* the built-in words; names[i] is compiled with the body cell READ + i - 1
names ==
  << "read", "@", "!", "-", "+", "and", "or", "xor", "invert",
     "lshift", "rshift", "*", "<", "exit", "emit", "key", "r>", ">r", "j", "jz",
     ".", "'", ",", "=", "swap", "dup", "drop", "over", "tail", "save", "load",
     "find", "print", ".s" >>

initial_forth_program ==
     "\\ FORTH startup program.       \n"
  \o ": state 8 ! exit : ; immediate ' exit , 0 state exit : hex 9 ! ; : pwd 10 ; \n"
  \o ": h 0 ; : r 1 ; : here h @ ; : [ immediate 0 state ; : ] 1 state ;          \n"
  \o ": :noname immediate here 2 , ] ; : if immediate ' jz , here 0 , ;           \n"
  \o ": else immediate ' j , here 0 , swap dup here swap - swap ! ;               \n"
  \o ": then immediate dup here swap - swap ! ; : 2dup over over ;                \n"
  \o ": begin immediate here ; : until immediate ' jz , here - , ;                \n"
  \o ": 0= 0 = ; : 1+ 1 + ; : 1- 1 - ; : ')' 41 ; : tab 9 emit ; : cr 10 emit ;   \n"
  \o ": .( key drop begin key dup ')' = if drop exit then emit 0 until ;          \n"
  \o ": line dup . tab dup 4 + swap begin dup @ . tab 1+ 2dup = until drop ;      \n"
  \o ": literal 2 , , ; : size [ 11 @ literal ] ;                                 \n"
  \o ": list swap begin line cr 2dup < until ; : allot here + h ! ;               \n"
  \o ": words pwd @ begin dup dup 1 + @ 8 rshift 255 and - size * print tab @ dup 32 < until drop cr ;  \n"
  \o ": tuck swap over ; : nip swap drop ; : rot >r swap r> swap ;                \n"
  \o ": -rot rot rot ; : ? 0= if [ find \\ , ] then ; : :: [ find : , ] ;"

(***************************************************************************)
(* Characters.  A C string is a sequence of byte values; the printable     *)
(* ones are written as TLA+ strings and converted with Ord.                *)
(***************************************************************************)
\* the printable ASCII characters 32..126 in order ('`' stands as '?': no
\* input uses it and a TLA+ string cannot hold it)
Ascii ==
  " !\"#$%&'()*+,-./0123456789:;<=>?@ABCDEFGHIJKLMNOPQRSTUVWXYZ[\\]^_?abcdefghijklmnopqrstuvwxyz{|}~"

OrdTable ==
  [c \in {SubSeq(Ascii, i, i) : i \in 1..Len(Ascii)} \cup {"\n", "\t"} |->
     IF c = "\n" THEN 10
     ELSE IF c = "\t" THEN 9
     ELSE 31 + (CHOOSE i \in 1..Len(Ascii) : SubSeq(Ascii, i, i) = c)]

Ord(c) == OrdTable[c]

\* the bytes of a string literal, without the terminating NUL
Bytes(str) == [i \in 1..Len(str) |-> Ord(SubSeq(str, i, i))]

\* isspace() of the C locale
isspace(c) == c \in {9, 10, 11, 12, 13, 32}

(***************************************************************************)
(* The image                                                               *)
(***************************************************************************)
\* m[a], for an index a inside the image
Rd(mem, a) == IF a \in DOMAIN mem THEN mem[a] ELSE 0

\* m[a] = v
Wr(mem, a, v) == IF a \in DOMAIN mem THEN [mem EXCEPT ![a] = v] ELSE (a :> v) @@ mem

\* ((uint8_t*)m)[ba]: cells are little-endian
GetByte(mem, ba) ==
  LET c == Rd(mem, ba \div CellBytes)
  IN  IF ba % CellBytes = 0 THEN c % 256 ELSE c \div 256

\* ((uint8_t*)m)[ba] = v
PutByte(mem, ba, v) ==
  LET a == ba \div CellBytes
      c == Rd(mem, a)
  IN  IF ba % CellBytes = 0
        THEN Wr(mem, a, (c \div 256) * 256 + v)
        ELSE Wr(mem, a, v * 256 + (c % 256))

\* the NUL-terminated string at byte address ba, as its bytes without the NUL
RECURSIVE CString(_, _)
CString(mem, ba) ==
  IF GetByte(mem, ba) = 0 THEN << >>
  ELSE << GetByte(mem, ba) >> \o CString(mem, ba + 1)

\* the bytes of str and a terminating NUL stored from byte address ba on
RECURSIVE PutString(_, _, _)
PutString(mem, ba, str) ==
  IF str = << >> THEN PutByte(mem, ba, 0)
  ELSE PutString(PutByte(mem, ba, Head(str)), ba + 1, Tail(str))

WORD_LENGTH(FIELD1) == (FIELD1 \div (2 ^ WORD_LENGTH_OFFSET)) % 256

\* FIELD1 & 0x80
WORD_HIDDEN(FIELD1) == (FIELD1 \div 128) % 2 = 1

\* k & INSTRUCTION_MASK
b(k) == k % (INSTRUCTION_MASK + 1)

\* bitwise operations on cells
RECURSIVE BitOp(_, _, _, _)
BitOp(tt, x, y, n) ==
  IF n = 0 THEN 0
  ELSE tt[x % 2][y % 2] + 2 * BitOp(tt, x \div 2, y \div 2, n - 1)

BitAnd(x, y) == BitOp([p \in 0..1 |-> [q \in 0..1 |-> p * q]], x, y, 16)

BitOr(x, y) == BitOp([p \in 0..1 |-> [q \in 0..1 |-> IF p + q > 0 THEN 1 ELSE 0]], x, y, 16)

BitXor(x, y) == BitOp([p \in 0..1 |-> [q \in 0..1 |-> (p + q) % 2]], x, y, 16)

(***************************************************************************)
(* Input: forth_get_char, forth_get_word, comment.                         *)
(* In string mode o.sin is the string given to forth_set_string_input; in  *)
(* file mode the stream o->in is at its end (the host's input is empty),   *)
(* so fgetc and fscanf return EOF.                                         *)
(***************************************************************************)
\* strlen(o->sin)
SinLen(o) == o.slen - 1

\* o->sin[i], for i up to the terminating NUL
SinByte(o, i) == IF i < Len(o.sin) THEN Ord(SubSeq(o.sin, i + 1, i + 1)) ELSE 0

\* forth_get_char: [c |-> the character or EOF, sidx |-> the new cursor]
forth_get_char(o) ==
  IF o.stringin
    THEN IF o.sidx >= o.slen
           THEN [c |-> EOF, sidx |-> o.sidx]
           ELSE [c |-> SinByte(o, o.sidx), sidx |-> o.sidx + 1]
    ELSE [c |-> EOF, sidx |-> o.sidx]

\* the first index from i on that holds no white space (sscanf's %s skips it)
RECURSIVE SkipSpace(_, _)
SkipSpace(o, i) == IF isspace(SinByte(o, i)) THEN SkipSpace(o, i + 1) ELSE i

\* the end of the run of at most n non-space bytes that starts at i
RECURSIVE ScanWord(_, _, _)
ScanWord(o, i, n) ==
  IF n = 0 \/ SinByte(o, i) = 0 \/ isspace(SinByte(o, i)) THEN i
  ELSE ScanWord(o, i + 1, n - 1)

\* the result of forth_get_word:
\*   r    the value returned: n, or EOF when only white space is left
\*   word the bytes stored at p (without the NUL), when r is not EOF
\*   sidx the new cursor
\*   over TRUE when the scan starts beyond the string's terminating NUL
NoWord(o, isOver) == [r |-> EOF, word |-> << >>, sidx |-> o.sidx, over |-> isOver]

\* the word in o->sin[from .. to - 1]; %n counts from the cursor
WordAt(o, from, to) ==
  IF to = from THEN NoWord(o, FALSE)
  ELSE [r |-> to - o.sidx,
        word |-> [i \in 1..(to - from) |-> SinByte(o, from + i - 1)],
        sidx |-> to, over |-> FALSE]

\* %31s from the first non-space byte on
WordFrom(o, from) == WordAt(o, from, ScanWord(o, from, MAX_WORD_LENGTH - 1))

\* forth_get_word: sscanf(&sin[sidx], "%31s%n", p, &n); return o->sidx += n, n
forth_get_word(o) ==
  IF ~o.stringin THEN NoWord(o, FALSE)
  ELSE IF o.sidx > SinLen(o) THEN NoWord(o, TRUE)
  ELSE WordFrom(o, SkipSpace(o, o.sidx))

\* comment: while(((c = forth_get_char(o)) > 0) && (c != '\n'));  return c
RECURSIVE comment(_)
comment(o) ==
  LET g == forth_get_char(o)
  IN  IF g.c > 0 /\ g.c # 10
        THEN comment([o EXCEPT !.sidx = g.sidx])
        ELSE g

(***************************************************************************)
(* Numbers: is_number, strtol(s, 0, 0), and the printf conversions         *)
(***************************************************************************)
\* strspn(s, set) for the byte sequence s
RECURSIVE strspn(_, _)
strspn(s, set) ==
  IF s # << >> /\ Head(s) \in set THEN 1 + strspn(Tail(s), set) ELSE 0

DecDigits == {Ord(SubSeq("0123456789", i, i)) : i \in 1..10}

OctDigits == {Ord(SubSeq("01234567", i, i)) : i \in 1..8}

HexDigits == {Ord(SubSeq("0123456789abcdefABCDEF", i, i)) : i \in 1..22}

\* s[i] of a C string held without its NUL (i from 0)
At(s, i) == IF i < Len(s) THEN s[i + 1] ELSE 0

\* s + n
Skip(s, n) == SubSeq(s, n + 1, Len(s))

is_number(str) ==
  LET s == IF At(str, 0) = Ord("-") THEN Skip(str, 1) ELSE str
  IN  IF At(s, 0) = Ord("0")
        THEN IF At(s, 1) = Ord("x")
               THEN strspn(Skip(s, 2), HexDigits) + 2 = Len(s) /\ At(s, 2) # 0
               ELSE strspn(s, OctDigits) = Len(s)
        ELSE strspn(s, DecDigits) = Len(s) /\ At(s, 0) # 0

\* the value of a digit character
DigitVal(c) ==
  IF c \in DecDigits THEN c - Ord("0")
  ELSE IF c >= Ord("a") THEN c - Ord("a") + 10
  ELSE c - Ord("A") + 10

\* the digits of s in the given base, reduced modulo CellMod as the
\* conversion of the long to a cell reduces it
RECURSIVE ParseDigits(_, _, _)
ParseDigits(s, base, acc) ==
  IF s = << >> \/ Head(s) \notin HexDigits \/ DigitVal(Head(s)) >= base THEN acc
  ELSE ParseDigits(Tail(s), base, (acc * base + DigitVal(Head(s))) % CellMod)

\* strtol with base 10 in place of base 0: no 0x prefix, no octal
strtol_decimal(str) ==
  LET neg == At(str, 0) = Ord("-")
      mag == ParseDigits(IF neg THEN Skip(str, 1) ELSE str, 10, 0)
  IN  IF neg THEN (CellMod - mag) % CellMod ELSE mag

\* (forth_cell_t)strtol(s, 0, 0), for a string that fits a long
strtol(str) ==
  LET neg == At(str, 0) = Ord("-")
      s   == IF neg THEN Skip(str, 1) ELSE str
      mag == IF At(s, 0) = Ord("0") /\ At(s, 1) \in {Ord("x"), Ord("X")}
                  /\ At(s, 2) \in HexDigits
               THEN ParseDigits(Skip(s, 2), 16, 0)
             ELSE IF At(s, 0) = Ord("0") THEN ParseDigits(s, 8, 0)
             ELSE ParseDigits(s, 10, 0)
  IN  IF neg THEN (CellMod - mag) % CellMod ELSE mag

\* the digits of n in the given base, most significant first
RECURSIVE Digits(_, _, _)
Digits(n, base, alphabet) ==
  LET d == Ord(SubSeq(alphabet, (n % base) + 1, (n % base) + 1))
  IN  IF n < base THEN << d >> ELSE Digits(n \div base, base, alphabet) \o << d >>

\* printf("%u", f)
FmtU(n) == Digits(n, 10, "0123456789")

\* printf("%X", f)
FmtX(n) == Digits(n, 16, "0123456789ABCDEF")

\* printf("%hx", f)
Fmtx(n) == Digits(n, 16, "0123456789abcdef")

(***************************************************************************)
(* The state of a forth_run in progress, as one record v:                  *)
(*   m, o        the image and the other fields of the core                *)
(*   S, f, I, pc the locals of forth_run                                   *)
(*   out, err    the bytes written to o->out, the diagnostics on stderr    *)
(*   rc          the value returned by compile                             *)
(*   k           where control goes next: "break" (the next iteration of   *)
(*               the loop), "inner" (goto INNER), "end" (goto end),        *)
(*               "fatal" (longjmp(o->error, 1)) or "ub" (undefined         *)
(*               behaviour, of the kind named by fault)                    *)
(***************************************************************************)
\* an image access outside the image, which the C code does not check
Ub(v) == [v EXCEPT !.k = "ub", !.fault = "out-of-image access"]

\* check_bounds fails: the diagnostic and the longjmp
Bounds(v) == [v EXCEPT !.k = "fatal", !.err = Append(@, "bounds check failed")]

\* ck(c) does not longjmp
ck(v, c) == c < v.o.core_size

\* *++S = f
Spush(v) ==
  IF v.S + 1 < 0 \/ v.S + 1 >= v.o.core_size THEN Ub(v)
  ELSE [v EXCEPT !.S = v.S + 1, !.m = Wr(v.m, v.S + 1, v.f)]

\* *S
Snext(v) == Rd(v.m, v.S)

\* f = x; S--, where x was computed from *S
Spop(v, x) ==
  IF v.S < 0 \/ v.S >= v.o.core_size THEN Ub(v)
  ELSE [v EXCEPT !.f = x, !.S = v.S - 1]

\* m[ck(m[DIC]++)] = x
Comma(v, x) ==
  LET d  == Rd(v.m, DIC)
      m1 == Wr(v.m, DIC, (d + 1) % CellMod)
  IN  IF ~ck(v, d) THEN Bounds([v EXCEPT !.m = m1])
      ELSE [v EXCEPT !.m = Wr(m1, d, x)]

\* m[m[DIC]++] = x, without a bounds check
Put(mem, x) == Wr(Wr(mem, DIC, (Rd(mem, DIC) + 1) % CellMod), Rd(mem, DIC), x)

\* the cells a name of n bytes takes: strlen + 1, aligned up to a cell
NameCells(n) == (n + 1 + (CellBytes - 1)) \div CellBytes

\* m[DIC] += l
AddDic(mem, l) == Wr(mem, DIC, (Rd(mem, DIC) + l) % CellMod)

\* m[PWD] = m[0] - 1
SetPwd(mem) == Wr(mem, PWD, (Rd(mem, DIC) - 1) % CellMod)

\* compile, after the strcpy, for a name of l cells:
\*   m[DIC] += l; m[m[0]++] = m[PWD]; m[PWD] = m[0] - 1;
\*   m[m[0]++] = (l << WORD_LENGTH_OFFSET) | code
CompileHeader(mem, l, code) ==
  Put(SetPwd(Put(AddDic(mem, l), Rd(mem, PWD))),
      (l * (2 ^ WORD_LENGTH_OFFSET) + code) % CellMod)

\* compile, from the strcpy on, for the name str (its bytes):
\*   strcpy((char *)(o->m + header), str); ...
CompileNamed(v, code, str) ==
  IF Rd(v.m, DIC) + NameCells(Len(str)) + 1 >= v.o.core_size THEN Ub(v)
  ELSE [v EXCEPT !.rc = 0,
                 !.m = CompileHeader(PutString(v.m, Rd(v.m, DIC) * CellBytes, str),
                                     NameCells(Len(str)), code)]

\* compile without a name, after forth_get_word returned g:
\*   if(forth_get_word(o, (uint8_t*)(o->s)) < 0) return -1; str = (char *)o->s
CompileWord(v, code, g) ==
  IF g.over THEN [v EXCEPT !.k = "ub", !.fault = "read beyond the input string"]
  ELSE IF g.r < 0 THEN [v EXCEPT !.rc = -1]
  ELSE CompileNamed([v EXCEPT !.m = PutString(@, STRING_OFFSET * CellBytes, g.word),
                              !.o = [@ EXCEPT !.sidx = g.sidx]],
                    code, g.word)

\* the argument str of compile when it is a null pointer
NULL == << -1 >>

\* compile(o, code, str); str is the name's bytes, or NULL: the name is read
\* from the input
compile(v, code, str) ==
  IF str = NULL THEN CompileWord(v, code, forth_get_word(v.o))
  ELSE CompileNamed(v, code, str)

\* the name field of the word with link index w: (char*)(&o->m[w - len])
NameOf(mem, w) == CString(mem, (w - WORD_LENGTH(Rd(mem, w + 1))) * CellBytes)

\* find reads outside the image at link index w
FindOutside(mem, size, w) ==
  w + 1 >= size \/ (w > DICTIONARY_START /\ w - WORD_LENGTH(Rd(mem, w + 1)) < 0)

\* the condition of find's loop with only the first bytes of the names compared
FindOn_initial(mem, size, s, w) ==
  /\ ~FindOutside(mem, size, w)
  /\ w > DICTIONARY_START
  /\ (At(NameOf(mem, w), 0) # At(s, 0) \/ WORD_HIDDEN(Rd(mem, w + 1)))

\* the condition of find's loop at link index w, for the name s:
\*   w > DICTIONARY_START && (strcmp(o->s, &o->m[w - len]) || WORD_HIDDEN(m[w+1]))
FindOn(mem, size, s, w) ==
  /\ ~FindOutside(mem, size, w)
  /\ w > DICTIONARY_START
  /\ (NameOf(mem, w) # s \/ WORD_HIDDEN(Rd(mem, w + 1)))

\* find's loop, from link index w on: w = m[w] while the condition holds
RECURSIVE FindFrom(_, _, _, _)
FindFrom(mem, size, s, w) ==
  IF FindOn(mem, size, s, w) THEN FindFrom(mem, size, s, Rd(mem, w)) ELSE w

\* return w > DICTIONARY_START ? w : 0; -1 when the loop read outside the image
FindResult(mem, size, w) ==
  IF FindOutside(mem, size, w) THEN -1
  ELSE IF w > DICTIONARY_START THEN w ELSE 0

\* find's search for the name s, from the latest word m[PWD] on
find_str(mem, size, s) == FindResult(mem, size, FindFrom(mem, size, s, Rd(mem, PWD)))

\* find(o): the name looked up is the string at o->s
find(mem, size) == find_str(mem, size, CString(mem, STRING_OFFSET * CellBytes))

(***************************************************************************)
(* The primitives: the cases of the switch in forth_run                    *)
(***************************************************************************)
\* case PUSH: *++S = f; f = m[ck(I++)]
case_PUSH(v) ==
  LET v1 == Spush(v)
  IN  IF v1.k = "ub" THEN v1
      ELSE IF ~ck(v, v.I) THEN Bounds(v1)
      ELSE [v1 EXCEPT !.f = Rd(v1.m, v.I), !.I = (v.I + 1) % CellMod]

\* case COMPILE: m[ck(m[DIC]++)] = pc
case_COMPILE(v) == Comma(v, v.pc)

\* case RUN: m[ck(++m[RSTK])] = I; I = pc
case_RUN(v) ==
  LET r  == (Rd(v.m, RSTK) + 1) % CellMod
      m1 == Wr(v.m, RSTK, r)
  IN  IF ~ck(v, r) THEN Bounds([v EXCEPT !.m = m1])
      ELSE [v EXCEPT !.m = Wr(m1, r, v.I), !.I = v.pc]

\* case DEFINE, after compile left the run as c:
\*   if(compile(o, COMPILE, NULL) < 0) goto end; m[ck(m[DIC]++)] = RUN
Defined(c) ==
  IF c.k = "ub" THEN c
  ELSE IF c.rc < 0 THEN [c EXCEPT !.k = "end"]
  ELSE Comma(c, RUN)

\* case DEFINE with the new word compiled hidden (bit 7 of its code cell set)
case_DEFINE_hidden(v) ==
  Defined(compile([v EXCEPT !.m = Wr(@, STATE_, 1)], COMPILE + 128, NULL))

\* case DEFINE: m[STATE] = 1; if(compile(o, COMPILE, NULL) < 0) goto end;
\*              m[ck(m[DIC]++)] = RUN
case_DEFINE(v) == Defined(compile([v EXCEPT !.m = Wr(@, STATE_, 1)], COMPILE, NULL))

\* case IMMEDIATE without its last statement, m[DIC]++
case_IMMEDIATE_rewound(v) ==
  LET d  == (Rd(v.m, DIC) - 2) % CellMod
      m1 == Wr(v.m, DIC, d)
      m2 == Wr(m1, d, (Rd(m1, d) - b(Rd(m1, d))) + RUN)
  IN  IF d >= v.o.core_size THEN Ub(v) ELSE [v EXCEPT !.m = m2]

\* case IMMEDIATE without the mask: m[m[DIC]] = m[m[DIC]] | RUN
case_IMMEDIATE_unmasked(v) ==
  LET d  == (Rd(v.m, DIC) - 2) % CellMod
      m1 == Wr(v.m, DIC, d)
      m2 == Wr(m1, d, BitOr(Rd(m1, d), RUN))
      m3 == Wr(m2, DIC, (Rd(m2, DIC) + 1) % CellMod)
  IN  IF d >= v.o.core_size THEN Ub(v) ELSE [v EXCEPT !.m = m3]

\* case IMMEDIATE: *m -= 2; m[m[DIC]] = (m[m[DIC]] & ~INSTRUCTION_MASK) | RUN;
\*                 m[DIC]++
case_IMMEDIATE(v) ==
  LET d  == (Rd(v.m, DIC) - 2) % CellMod
      m1 == Wr(v.m, DIC, d)
      m2 == Wr(m1, d, (Rd(m1, d) - b(Rd(m1, d))) + RUN)
      m3 == Wr(m2, DIC, (Rd(m2, DIC) + 1) % CellMod)
  IN  IF d >= v.o.core_size THEN Ub(v) ELSE [v EXCEPT !.m = m3]

\* case COMMENT: if(comment(o) < 0) goto end
case_COMMENT(v) ==
  LET g == comment(v.o)
  IN  [v EXCEPT !.o = [@ EXCEPT !.sidx = g.sidx],
                !.k = IF g.c < 0 THEN "end" ELSE "break"]

\* case READ, from the word found on, with the code cell of a compiling word
\* skipped in compile mode too
ReadFound_skip(v, w) ==
  IF ~ck(v, w + 1) THEN Bounds(v)
  ELSE [v EXCEPT !.k = "inner",
                 !.pc = IF b(Rd(v.m, w + 1)) = COMPILE THEN (w + 2) % CellMod
                        ELSE w + 1]

\* case READ, from the word found on: pc = w + 1;
\*   if (!m[STATE] && b(m[ck(pc)]) == COMPILE) pc++; goto INNER
ReadFound(v, w) ==
  IF Rd(v.m, STATE_) = 0
    THEN IF ~ck(v, w + 1) THEN Bounds(v)
         ELSE [v EXCEPT !.k = "inner",
                        !.pc = IF b(Rd(v.m, w + 1)) = COMPILE THEN (w + 2) % CellMod
                               ELSE w + 1]
    ELSE [v EXCEPT !.k = "inner", !.pc = w + 1]

\* m[m[0]++] = 2; m[ck(m[0]++)] = n
Literal(v, n) ==
  IF Rd(v.m, DIC) >= v.o.core_size THEN Ub(v)
  ELSE Comma([v EXCEPT !.m = Put(@, 2)], n)


\* case READ, for a number: if (m[STATE]) { m[m[0]++] = 2; m[ck(m[0]++)] = strtol(..) }
\*                          else { *++S = f; f = strtol(..) }
ReadNumber(v, n) ==
  IF Rd(v.m, STATE_) # 0 THEN Literal(v, n)
  ELSE IF Spush(v).k = "ub" THEN Ub(v)
  ELSE [Spush(v) EXCEPT !.f = n]

\* case READ for a token that is no word and no number, taken as a failure
\* of the run
ReadWord_fatal(v, w, s) ==
  IF w = -1 THEN Ub(v)
  ELSE IF w > 1 THEN ReadFound(v, w)
  ELSE IF ~is_number(s) THEN Bounds(v)
  ELSE ReadNumber(v, strtol(s))

\* case READ, after w = find(o), for the word s at o->s:
\*   if (w > 1) {...} else if(!is_number(o->s)) { fprintf(stderr, ...); break; } ...
ReadWord(v, w, s) ==
  IF w = -1 THEN Ub(v)
  ELSE IF w > 1 THEN ReadFound(v, w)
  ELSE IF ~is_number(s) THEN [v EXCEPT !.err = Append(@, "is not a word")]
  ELSE ReadNumber(v, strtol(s))

\* case READ, with the word at o->s: w = find(o); ... strtol(o->s, NULL, 0)
ReadLookup(v) ==
  ReadWord(v, find(v.m, v.o.core_size), CString(v.m, STRING_OFFSET * CellBytes))

\* case READ, after forth_get_word returned g: if(... < 0) goto end
ReadGot(v, g) ==
  IF g.over THEN [v EXCEPT !.k = "ub", !.fault = "read beyond the input string"]
  ELSE IF g.r < 0 THEN [v EXCEPT !.k = "end"]
  ELSE ReadLookup([v EXCEPT !.m = PutString(@, STRING_OFFSET * CellBytes, g.word),
                            !.o = [@ EXCEPT !.sidx = g.sidx]])

\* case READ: m[ck(RSTK)]--; if(forth_get_word(o, o->s) < 0) goto end; ...
case_READ(v) ==
  IF ~ck(v, RSTK) THEN Bounds(v)
  ELSE ReadGot([v EXCEPT !.m = Wr(@, RSTK, (Rd(@, RSTK) - 1) % CellMod)],
               forth_get_word(v.o))

\* case LOAD: f = m[ck(f)]
case_LOAD(v) == IF ~ck(v, v.f) THEN Bounds(v) ELSE [v EXCEPT !.f = Rd(v.m, v.f)]

\* case STORE: m[ck(f)] = *S--; f = *S--
case_STORE(v) ==
  LET m1 == Wr(v.m, v.f, Snext(v))
  IN  IF ~ck(v, v.f) THEN Bounds(v)
      ELSE IF v.S - 1 < 0 \/ v.S >= v.o.core_size THEN Ub(v)
      ELSE [v EXCEPT !.m = m1, !.f = Rd(m1, v.S - 1), !.S = v.S - 2]

\* case SUB: f = *S-- - f
case_SUB(v) == Spop(v, (Snext(v) - v.f) % CellMod)

\* case ADD: f = *S-- + f
case_ADD(v) == Spop(v, (Snext(v) + v.f) % CellMod)

\* case AND: f = *S-- & f
case_AND(v) == Spop(v, BitAnd(Snext(v), v.f))

\* case OR: f = *S-- | f
case_OR(v) == Spop(v, BitOr(Snext(v), v.f))

\* case XOR: f = *S-- ^ f
case_XOR(v) == Spop(v, BitXor(Snext(v), v.f))

\* case INV: f = ~f
case_INV(v) == [v EXCEPT !.f = (CellMod - 1) - v.f]

\* a shift by the width of an int or more is undefined
ShiftUb(v) == [v EXCEPT !.k = "ub", !.fault = "shift count"]

\* the cells are promoted to int: a result of 2^31 or more is undefined
OverflowUb(v) == [v EXCEPT !.k = "ub", !.fault = "signed overflow"]

\* case SHL: f = *S-- << f
case_SHL(v) ==
  IF v.f >= 32 THEN ShiftUb(v)
  ELSE IF v.f >= 16 /\ Snext(v) >= 2 ^ (31 - v.f) THEN OverflowUb(v)
  ELSE Spop(v, IF v.f >= 16 THEN 0 ELSE (Snext(v) * (2 ^ v.f)) % CellMod)

\* case SHR: f = *S-- >> f
case_SHR(v) ==
  IF v.f >= 32 THEN ShiftUb(v)
  ELSE Spop(v, IF v.f >= 16 THEN 0 ELSE Snext(v) \div (2 ^ v.f))

\* case MUL: f = *S-- * f; the product modulo CellMod, by halves of f
case_MUL(v) ==
  IF v.f # 0 /\ Snext(v) > (2147483647 \div v.f) THEN OverflowUb(v)
  ELSE Spop(v, (Snext(v) * (v.f % 256) + ((Snext(v) * (v.f \div 256)) % 256) * 256)
                 % CellMod)

\* case LESS: f = *S-- < f
case_LESS(v) == Spop(v, IF Snext(v) < v.f THEN 1 ELSE 0)

\* case EXIT: I = m[ck(m[RSTK]--)]
case_EXIT(v) ==
  LET r  == Rd(v.m, RSTK)
      m1 == Wr(v.m, RSTK, (r - 1) % CellMod)
  IN  IF ~ck(v, r) THEN Bounds([v EXCEPT !.m = m1])
      ELSE [v EXCEPT !.m = m1, !.I = Rd(m1, r)]

\* case EMIT: fputc(f, o->out); f = *S--
case_EMIT(v) == Spop([v EXCEPT !.out = Append(@, v.f % 256)], Snext(v))

\* case KEY: *++S = f; f = forth_get_char(o)
case_KEY(v) ==
  LET v1 == Spush(v)
      g  == forth_get_char(v.o)
  IN  IF v1.k = "ub" THEN v1
      ELSE [v1 EXCEPT !.f = g.c % CellMod, !.o = [@ EXCEPT !.sidx = g.sidx]]

\* case FROMR: *++S = f; f = m[ck(m[RSTK]--)]
case_FROMR(v) ==
  LET v1 == Spush(v)
      r  == Rd(v1.m, RSTK)
      m1 == Wr(v1.m, RSTK, (r - 1) % CellMod)
  IN  IF v1.k = "ub" THEN v1
      ELSE IF ~ck(v, r) THEN Bounds([v1 EXCEPT !.m = m1])
      ELSE [v1 EXCEPT !.m = m1, !.f = Rd(m1, r)]

\* case TOR: m[ck(++m[RSTK])] = f; f = *S--
case_TOR(v) ==
  LET r  == (Rd(v.m, RSTK) + 1) % CellMod
      m1 == Wr(v.m, RSTK, r)
      m2 == Wr(m1, r, v.f)
  IN  IF ~ck(v, r) THEN Bounds([v EXCEPT !.m = m1])
      ELSE Spop([v EXCEPT !.m = m2], Rd(m2, v.S))

\* case JMP: I += m[ck(I)]
case_JMP(v) ==
  IF ~ck(v, v.I) THEN Bounds(v)
  ELSE [v EXCEPT !.I = (v.I + Rd(v.m, v.I)) % CellMod]

\* case JMPZ with the test inverted: the jump is taken when f is not 0
case_JMPZ_nonzero(v) ==
  IF v.f # 0 /\ v.I >= v.o.core_size THEN Ub(v)
  ELSE Spop([v EXCEPT !.I = (v.I + (IF v.f # 0 THEN Rd(v.m, v.I) ELSE 1)) % CellMod],
            Snext(v))

\* case JMPZ: I += f == 0 ? m[I] : 1; f = *S--
case_JMPZ(v) ==
  IF v.f = 0 /\ v.I >= v.o.core_size THEN Ub(v)
  ELSE Spop([v EXCEPT !.I = (v.I + (IF v.f = 0 THEN Rd(v.m, v.I) ELSE 1)) % CellMod],
            Snext(v))

\* case PNUM with a space written after the number
case_PNUM_spaced(v) ==
  Spop([v EXCEPT !.out = @ \o (IF Rd(v.m, HEX) # 0 THEN FmtX(v.f) ELSE FmtU(v.f))
                            \o Bytes(" ")],
       Snext(v))

\* case PNUM: fprintf(o->out, m[HEX] ? "%X" : "%u", f); f = *S--
case_PNUM(v) ==
  Spop([v EXCEPT !.out = @ \o (IF Rd(v.m, HEX) # 0 THEN FmtX(v.f) ELSE FmtU(v.f))],
       Snext(v))

\* case QUOTE: *++S = f; f = m[ck(I++)]
case_QUOTE(v) == case_PUSH(v)

\* case COMMA: m[ck(m[0]++)] = f; f = *S--
case_COMMA(v) ==
  LET v1 == Comma(v, v.f)
  IN  IF v1.k = "fatal" THEN v1 ELSE Spop(v1, Rd(v1.m, v.S))

\* case EQUAL: f = *S-- == f
case_EQUAL(v) == Spop(v, IF Snext(v) = v.f THEN 1 ELSE 0)

\* case SWAP: w = f; f = *S--; *++S = w
case_SWAP(v) ==
  IF v.S < 0 \/ v.S >= v.o.core_size THEN Ub(v)
  ELSE [v EXCEPT !.f = Snext(v), !.m = Wr(v.m, v.S, v.f)]

\* case DUP: *++S = f
case_DUP(v) == Spush(v)

\* case DROP: f = *S--
case_DROP(v) == Spop(v, Snext(v))

\* case OVER: w = *S; *++S = f; f = w
case_OVER(v) ==
  LET v1 == Spush(v)
  IN  IF v.S < 0 \/ v1.k = "ub" THEN Ub(v) ELSE [v1 EXCEPT !.f = Snext(v)]

\* case TAIL: m[RSTK]--
case_TAIL(v) == [v EXCEPT !.m = Wr(v.m, RSTK, (Rd(v.m, RSTK) - 1) % CellMod)]

\* blockio(o, p, poffset, id, rw): the host's directory holds no block files
\* and is not writable, so fopen fails: -1 either way, as a cell
blockio(v, poffset, id, rw) == CellMod - 1

\* case BSAVE: f = blockio(o, m, *S--, f, 'w')
case_BSAVE(v) == Spop(v, blockio(v, Snext(v), v.f, "w"))

\* case BLOAD: f = blockio(o, m, *S--, f, 'r')
case_BLOAD(v) == Spop(v, blockio(v, Snext(v), v.f, "r"))

\* case FIND, with w = find(o):
\*   f = find(o) + 2; f = f < DICTIONARY_START ? 0 : f
Found(v, w) ==
  IF w = -1 THEN Ub(v)
  ELSE [v EXCEPT !.f = IF w + 2 < DICTIONARY_START THEN 0 ELSE w + 2]

\* case FIND, after forth_get_word returned g: if(... < 0) goto end
FindGot(v, g) ==
  IF g.over THEN [v EXCEPT !.k = "ub", !.fault = "read beyond the input string"]
  ELSE IF g.r < 0 THEN [v EXCEPT !.k = "end"]
  ELSE Found([v EXCEPT !.m = PutString(@, STRING_OFFSET * CellBytes, g.word),
                       !.o = [@ EXCEPT !.sidx = g.sidx]],
             find(PutString(v.m, STRING_OFFSET * CellBytes, g.word), v.o.core_size))

\* case FIND: *++S = f; if(forth_get_word(o, o->s) < 0) goto end;
\*            f = find(o) + 2; f = f < DICTIONARY_START ? 0 : f
case_FIND(v) ==
  IF Spush(v).k = "ub" THEN Ub(v) ELSE FindGot(Spush(v), forth_get_word(v.o))

\* case PRINT: fputs(((char*)m)+f, o->out); f = *S--
case_PRINT(v) == Spop([v EXCEPT !.out = @ \o CString(v.m, v.f)], Snext(v))

\* print_stack: the cells from S down to begin + 2, each as "%hx\t" or "%hu\t"
RECURSIVE print_cells(_, _, _, _)
print_cells(mem, hex, begin, sp) ==
  IF begin + 1 < sp
    THEN (IF hex THEN Fmtx(Rd(mem, sp)) ELSE FmtU(Rd(mem, sp))) \o << 9 >>
           \o print_cells(mem, hex, begin, sp - 1)
    ELSE << >>

print_stack(v) ==
  LET hex == Rd(v.m, HEX) # 0
  IN  (IF hex THEN Fmtx(v.f) ELSE FmtU(v.f)) \o << 9 >>
        \o print_cells(v.m, hex, v.o.core_size - 2 * v.o.stack_size, v.S)

\* case PSTK: print_stack(o, f, S)
case_PSTK(v) == [v EXCEPT !.out = @ \o print_stack(v)]

\* default: fputs("( fatal 'illegal-op )\n", stderr); longjmp(o->error, 1)
case_default(v) == [v EXCEPT !.k = "fatal", !.err = Append(@, "illegal-op")]

\* the enumerator with value op, "default" when there is none
OpName(op) == IF op < LAST THEN instructions[op + 1] ELSE "default"

\* switch (op): the enumerator with value op names the case
switch(v, op) ==
  LET name == OpName(op)
  IN
  CASE name = "PUSH" -> case_PUSH(v)
    [] name = "COMPILE" -> case_COMPILE(v)
    [] name = "RUN" -> case_RUN(v)
    [] name = "DEFINE" -> case_DEFINE(v)
    [] name = "IMMEDIATE" -> case_IMMEDIATE(v)
    [] name = "COMMENT" -> case_COMMENT(v)
    [] name = "READ" -> case_READ(v)
    [] name = "LOAD" -> case_LOAD(v)
    [] name = "STORE" -> case_STORE(v)
    [] name = "SUB" -> case_SUB(v)
    [] name = "ADD" -> case_ADD(v)
    [] name = "AND" -> case_AND(v)
    [] name = "OR" -> case_OR(v)
    [] name = "XOR" -> case_XOR(v)
    [] name = "INV" -> case_INV(v)
    [] name = "SHL" -> case_SHL(v)
    [] name = "SHR" -> case_SHR(v)
    [] name = "MUL" -> case_MUL(v)
    [] name = "LESS" -> case_LESS(v)
    [] name = "EXIT" -> case_EXIT(v)
    [] name = "EMIT" -> case_EMIT(v)
    [] name = "KEY" -> case_KEY(v)
    [] name = "FROMR" -> case_FROMR(v)
    [] name = "TOR" -> case_TOR(v)
    [] name = "JMP" -> case_JMP(v)
    [] name = "JMPZ" -> case_JMPZ(v)
    [] name = "PNUM" -> case_PNUM(v)
    [] name = "QUOTE" -> case_QUOTE(v)
    [] name = "COMMA" -> case_COMMA(v)
    [] name = "EQUAL" -> case_EQUAL(v)
    [] name = "SWAP" -> case_SWAP(v)
    [] name = "DUP" -> case_DUP(v)
    [] name = "DROP" -> case_DROP(v)
    [] name = "OVER" -> case_OVER(v)
    [] name = "TAIL" -> case_TAIL(v)
    [] name = "BSAVE" -> case_BSAVE(v)
    [] name = "BLOAD" -> case_BLOAD(v)
    [] name = "FIND" -> case_FIND(v)
    [] name = "PRINT" -> case_PRINT(v)
    [] name = "PSTK" -> case_PSTK(v)
    [] OTHER -> case_default(v)

(***************************************************************************)
(* forth_init, up to the evaluation of the startup program                 *)
(***************************************************************************)
\* for(i = 0, w = READ; names[i]; i++) compile(o, COMPILE, names[i]), m[m[DIC]++] = w++
RECURSIVE CompileNames(_, _)
Named(c, i) ==
  IF c.k = "ub" THEN c
  ELSE CompileNames([c EXCEPT !.m = Put(@, READ + i - 1)], i + 1)

CompileNames(v, i) ==
  IF i > Len(names) THEN v ELSE Named(compile(v, COMPILE, Bytes(names[i])), i)

\* the special word that reads in FORTH, at DICTIONARY_START:
\*   m[m[DIC]++] = READ; m[m[DIC]++] = RUN; o->I = m[DIC];
\*   m[m[DIC]++] = w; m[m[DIC]++] = o->I - 1
ReadLoop(mem) ==
  Put(Put(Put(Put(mem, READ), RUN), DICTIONARY_START), DICTIONARY_START + 1)

\* forth_init, from calloc to the four cells of the special word
InitCore(size) ==
  [m |-> ReadLoop((DIC :> DICTIONARY_START) @@ (PWD :> 1) @@ (INFO :> CellBytes)
                    @@ (INFO + 1 :> size % CellMod)),
   o |-> [core_size |-> size, stack_size |-> size \div 64, I |-> DICTIONARY_START + 2,
          top |-> 0, S |-> 0, invalid |-> FALSE, stringin |-> FALSE, sin |-> "",
          sidx |-> 0, slen |-> 0],
   S |-> 0, f |-> 0, I |-> 0, pc |-> 0, out |-> << >>, err |-> << >>, rc |-> 0,
   k |-> "break", fault |-> ""]

\* m[RSTK] = size - o->stack_size; o->S = m + size - (2 * o->stack_size)
InitStacks(v) ==
  [v EXCEPT !.m = Wr(@, RSTK, v.o.core_size - v.o.stack_size),
            !.o = [@ EXCEPT !.S = v.o.core_size - 2 * v.o.stack_size]]

\* the core after forth_init's line "o->S = m + size - (2 * o->stack_size)"
forth_init(size) ==
  InitStacks(
    CompileNames(
      compile(compile(compile(InitCore(size), DEFINE_, Bytes(":")),
                      IMMEDIATE, Bytes("immediate")),
              COMMENT, Bytes("\\")),
      1))

\* forth_set_string_input(o, s)
forth_set_string_input(oo, s) ==
  [oo EXCEPT !.sidx = 0, !.slen = Len(s) + 1, !.stringin = TRUE, !.sin = s]

\* forth_set_file_input(o, in)
forth_set_file_input(oo) == [oo EXCEPT !.stringin = FALSE]

\* forth_stack_position(o): o->S - o->m as a cell
forth_stack_position(oo) == oo.S % CellMod

(***************************************************************************)
(* The model's bounds and the host's inputs                                *)
(***************************************************************************)
\* the number of calls the host makes after forth_init
MaxCalls == 2

\* the strings the host evaluates
Inputs ==
  { "hex 255 .", "1 2", "+ .", "1 2 + .", "drop", "40000 @",
    ": sq dup * ; 7 sq .", ": foo immediate 42 ;", ":", "find",
    "1 h ! immediate", "0 1 - h ! 1 ,", "0 1 - r !" }

\* the values the host pushes
PushValues == {7}

(***************************************************************************)
(* The state                                                               *)
(***************************************************************************)
VARIABLES
  m,      \* o->m, the image
  o,      \* the other fields of the core (struct forth)
  S, f, I, pc,   \* the locals of the forth_run in progress
  out,    \* the bytes written to o->out
  err,    \* the diagnostics written to stderr
  at,     \* where control is: "loop" (the head of forth_run's loop), "inner"
          \* (the label INNER), "host" (between the host's calls), "ub"
          \* (undefined behaviour happened), "abort" (an assertion failed),
          \* "failed" (forth_init returned NULL)
  fault,  \* the kind of undefined behaviour, when at = "ub"
  call,   \* the host's call in progress, or the last one completed
  ret,    \* the value the last completed call returned
  calls,  \* the number of calls made after forth_init
  evals,  \* the strings given to forth_eval after forth_init, in order
  last    \* the name of the case the switch took last, "" before the first

vars == << m, o, S, f, I, pc, out, err, at, fault, call, ret, calls, evals, last >>

\* the run in progress as a record
Vm ==
  [m |-> m, o |-> o, S |-> S, f |-> f, I |-> I, pc |-> pc, out |-> out, err |-> err,
   rc |-> 0, k |-> "break", fault |-> fault]

\* forth_init has set the core up and calls forth_eval(o, initial_forth_program):
\* the string is the input and forth_run has loaded its locals
Init ==
  LET v == forth_init(CORE_SIZE)
      oo == forth_set_string_input(v.o, initial_forth_program)
  IN  /\ m = v.m
      /\ o = oo
      /\ S = oo.S /\ f = oo.top /\ I = oo.I /\ pc = 0
      /\ out = << >> /\ err = << >>
      /\ at = "loop" /\ fault = ""
      /\ call = "forth_init" /\ ret = 0 /\ calls = 0
      /\ evals = << >> /\ last = ""

\* forth_run returns r to its caller; the core is oo.  forth_init then
\* returns NULL when r < 0, and switches to file input otherwise
Return(oo, r) ==
  /\ o' = IF call = "forth_init" /\ r >= 0 THEN forth_set_file_input(oo) ELSE oo
  /\ at' = IF call = "forth_init" /\ r < 0 THEN "failed" ELSE "host"
  /\ ret' = r
  /\ S' = 0 /\ f' = 0 /\ I' = 0 /\ pc' = 0

\* what follows a step of the interpreter that leaves the run as record r
Continue(r) ==
  /\ m' = r.m /\ out' = r.out /\ err' = r.err
  /\ UNCHANGED << call, calls, evals >>
  /\ CASE r.k \in {"break", "inner"} ->
            /\ at' = IF r.k = "inner" THEN "inner" ELSE "loop"
            /\ o' = r.o /\ S' = r.S /\ f' = r.f /\ I' = r.I /\ pc' = r.pc
            /\ UNCHANGED << ret, fault >>
       [] r.k = "end" ->        \* end: o->top = f; return 0
            /\ Return([r.o EXCEPT !.top = r.f], 0)
            /\ UNCHANGED fault
       [] r.k = "fatal" ->      \* setjmp returns 1: return -(o->invalid = 1)
            /\ Return([r.o EXCEPT !.invalid = TRUE], -1)
            /\ UNCHANGED fault
       [] r.k = "ub" ->
            /\ at' = "ub" /\ fault' = r.fault
            /\ o' = r.o /\ S' = r.S /\ f' = r.f /\ I' = r.I /\ pc' = r.pc
            /\ UNCHANGED ret

(***************************************************************************)
(* forth_run                                                               *)
(***************************************************************************)
\* for(;(pc = m[ck(I++)]);) { assert((S > m) && (S < (m + o->core_size)));
Fetch ==
  /\ at = "loop"
  /\ last' = last
  /\ LET v == [Vm EXCEPT !.I = (I + 1) % CellMod, !.pc = Rd(m, I)]
     IN  IF ~ck(Vm, I) THEN Continue(Bounds(v))
         ELSE IF v.pc = 0 THEN Continue([v EXCEPT !.k = "end"])
         ELSE IF ~(S > 0 /\ S < o.core_size)
           THEN /\ at' = "abort"
                /\ UNCHANGED << m, o, S, f, I, pc, out, err, fault, call, ret, calls,
                                evals >>
         ELSE Continue([v EXCEPT !.k = "inner"])

\* INNER: switch (b(m[ck(pc++)])) { ... }
Dispatch ==
  /\ at = "inner"
  /\ last' = IF ck(Vm, pc) THEN OpName(b(Rd(m, pc))) ELSE last
  /\ LET v == [Vm EXCEPT !.pc = (pc + 1) % CellMod]
     IN  IF ~ck(Vm, pc) THEN Continue(Bounds(v))
         ELSE Continue(switch(v, b(Rd(m, pc))))

\* forth_run's entry without the test of o->invalid
Enter_unguarded(oo) ==
  /\ UNCHANGED << m, out, err, fault, last, ret >>
  /\ o' = oo /\ at' = "loop"
  /\ S' = oo.S /\ f' = oo.top /\ I' = oo.I /\ pc' = 0

\* forth_run(o), from its entry to the head of the loop:
\*   f = o->top; S = o->S; I = o->I;
\*   if(o->invalid || setjmp(o->error)) return -(o->invalid = 1);
Enter(oo) ==
  /\ UNCHANGED << m, out, err, fault, last >>
  /\ IF oo.invalid
       THEN Return([oo EXCEPT !.invalid = TRUE], -1)
       ELSE /\ o' = oo /\ at' = "loop"
            /\ S' = oo.S /\ f' = oo.top /\ I' = oo.I /\ pc' = 0
            /\ UNCHANGED ret

(***************************************************************************)
(* The host's calls                                                        *)
(***************************************************************************)
\* forth_eval(o, s): forth_set_string_input(o, s); return forth_run(o)
forth_eval(s) ==
  /\ at = "host" /\ calls < MaxCalls
  /\ call' = "forth_eval" /\ calls' = calls + 1
  /\ evals' = Append(evals, s)
  /\ Enter(forth_set_string_input(o, s))

\* forth_run(o) on the input the core already has
forth_run ==
  /\ at = "host" /\ calls < MaxCalls
  /\ call' = "forth_run" /\ calls' = calls + 1
  /\ UNCHANGED evals
  /\ Enter(o)

\* forth_push(o, x): *++(o->S) = o->top; o->top = x
forth_push(x) ==
  /\ at = "host" /\ calls < MaxCalls
  /\ call' = "forth_push" /\ calls' = calls + 1
  /\ IF ~(o.S < o.core_size)
       THEN at' = "abort" /\ UNCHANGED << m, o, ret, fault >>
       ELSE IF o.S + 1 >= o.core_size
         THEN /\ at' = "ub" /\ fault' = "out-of-image access"
              /\ UNCHANGED << m, o, ret >>
       ELSE /\ m' = Wr(m, o.S + 1, o.top)
            /\ o' = [o EXCEPT !.S = o.S + 1, !.top = x]
            /\ UNCHANGED << at, ret, fault >>
  /\ UNCHANGED << S, f, I, pc, out, err, evals, last >>

\* forth_pop(o): f = o->top; o->top = *(o->S)--; return f
forth_pop ==
  /\ at = "host" /\ calls < MaxCalls
  /\ call' = "forth_pop" /\ calls' = calls + 1
  /\ IF ~(o.S > 0)
       THEN at' = "abort" /\ UNCHANGED << o, ret >>
       ELSE /\ o' = [o EXCEPT !.S = o.S - 1, !.top = Rd(m, o.S)]
            /\ ret' = o.top
            /\ UNCHANGED at
  /\ UNCHANGED << m, S, f, I, pc, out, err, fault, evals, last >>

Next ==
  \/ Fetch
  \/ Dispatch
  \/ \E s \in Inputs : forth_eval(s)
  \/ forth_run
  \/ \E x \in PushValues : forth_push(x)
  \/ forth_pop

Spec == Init /\ [][Next]_vars

(***************************************************************************)
(* A host that evaluates whole programs on the core forth_init returns     *)
(***************************************************************************)
MaxEvals == 1

\* the programs
Programs ==
  { "0 12345 0x1f -5 65535 0xFFFF 7 -1",
    "nosuch 1 2 + .", ": t nosuch 7 ; t .",
    ": t 0 if 1 else 2 then . ; t", ": t 1 if 1 else 2 then . ; t",
    ": t if 1 else 2 then 3 ; 9 0 t . . .", ": t if 1 else 2 then 3 ; 9 5 t . . .",
    ": cd 5 begin dup . 1 - dup 0 = until drop ; cd",
    ": x immediate 42 ; : y x ; y", ": foo dup ; immediate",
    ":: foo 1 ; foo .", ": c [ find dup , ] . ; 7 c", "find nosuch .",
    ": a 1 ; : b a ; : a 2 ; a . b .", ": a 1 ; : A 2 ; a . A .",
    "1 . \\ c", "1 . key", "1 . key drop 2 ." }

\* forth_eval(o, s) as one of the host's first MaxEvals calls
Evaluate(s) == calls < MaxEvals /\ forth_eval(s)

ProgramNext ==
  \/ Fetch
  \/ Dispatch
  \/ \E s \in Programs : Evaluate(s)

ProgramSpec == Init /\ [][ProgramNext]_vars

(***************************************************************************)
(* Properties                                                              *)
(***************************************************************************)
\* a call of forth_run has returned: directly, through forth_eval, or
\* through forth_init's evaluation of the startup program
Returned == at = "host" /\ call \in {"forth_init", "forth_run", "forth_eval"}

\* the host has made exactly the calls forth_eval(s[1]), ..., forth_eval(s[n])
\* after forth_init, and the last one has returned
Evaluated(s) == at = "host" /\ evals = s /\ calls = Len(s)

\* the switch is about to take the case of the enumerator op
About(op) == at = "inner" /\ ck(Vm, pc) /\ b(Rd(m, pc)) = op

\* the parameter-stack region and the return-stack region
ParamBase == o.core_size - 2 * o.stack_size

ReturnBase == o.core_size - o.stack_size

\* the byte sequence x occurs in the byte sequence y
Contains(y, x) == \E i \in 1..(Len(y) - Len(x) + 1) : SubSeq(y, i, i + Len(x) - 1) = x

\* w is the index of a word, and its code cell m[w + 1] holds code in its low
\* 7 bits, the hidden bit clear and the length l in cells from bit 8 on
IsWordAt(mem, w, l, code) ==
  w > 0 /\ Rd(mem, w + 1) = l * (2 ^ WORD_LENGTH_OFFSET) + code

\* the name s is found, and its code cell holds code in its low 7 bits, the
\* hidden bit clear and the name's length in cells from bit 8 on
IsWord(mem, s, code) ==
  IsWordAt(mem, find_str(mem, o.core_size, s), NameCells(Len(s)), code)

\* C1, first part: a run that has returned 0 left invalid false, a run that
\* has returned non-zero left it true
C1_Returned == Returned => (ret = 0 <=> ~o.invalid)

\* C1, second part: invalid is never cleared, and on an invalid core a call of
\* forth_run or forth_eval returns non-zero at once and changes neither the
\* image nor o->top, o->S, o->I
C1_Step ==
  /\ o.invalid => o'.invalid
  /\ o.invalid /\ call' \in {"forth_run", "forth_eval"} =>
       /\ m' = m /\ o'.top = o.top /\ o'.S = o.S /\ o'.I = o.I
       /\ at' = "host" /\ ret' # 0

\* C1: a run that returns 0 leaves invalid false; a run that returns non-zero
\* leaves invalid true, and then every later run returns non-zero too and
\* changes nothing in the image, the cached top, the stack pointer or the
\* instruction pointer: invalid is sticky
C1_InvalidSticky == [](C1_Returned) /\ [][C1_Step]_vars

\* a run on a core that an earlier evaluation left invalid has returned -1
C1_Witness ==
  /\ at = "host" /\ o.invalid /\ ret = -1
  /\ evals = << "40000 @" >> /\ call = "forth_run" /\ calls = 2

StoresToDic ==
  \/ About(Op("STORE")) /\ f = DIC
  \/ (About(RUN) \/ About(Op("TOR"))) /\ (Rd(m, RSTK) + 1) % CellMod = DIC

\* C2, amended: across a primitive that does not access outside the image,
\* IMMEDIATE lowers m[DIC] by exactly 1; a store to cell 0 sets it to the
\* stored value; every other primitive leaves it as it is or raises it, but
\* for the append at m[DIC] = 65535, which wraps it around to 0 (and is fatal)
C2_DicStep ==
  at = "inner" /\ at' # "ub" =>
    IF About(IMMEDIATE) THEN Rd(m', DIC) = (Rd(m, DIC) - 1) % CellMod
    ELSE IF StoresToDic THEN TRUE
    ELSE \/ Rd(m', DIC) >= Rd(m, DIC)
         \/ Rd(m, DIC) = CellMod - 1 /\ Rd(m', DIC) = 0 /\ at' = "host" /\ ret' = -1

C3_StackInRegion ==
  at \in {"loop", "inner"} /\ calls = Len(evals) => S >= ParamBase /\ S < ReturnBase

\* C4 as stated: from the end of forth_init on, m[RSTK] lies within the
\* return-stack region [core_size - stack_size, core_size)
C4_RstkInRegion ==
  (at = "host" \/ calls > 0) =>
    Rd(m, RSTK) >= ReturnBase /\ Rd(m, RSTK) < o.core_size

\* C5 as stated: no primitive accesses the image at an index outside
\* [0, core_size): the access does not happen, the run is fatal instead
C5_NoOutOfImageAccess == ~(at = "ub" /\ fault = "out-of-image access")

\* C6 as stated: "hex 255 ." evaluated on a fresh core leaves m[HEX] non-zero
\* and prints FF
C6_HexPrintsFF ==
  Evaluated(<< "hex 255 ." >>) =>
    ret = 0 /\ Rd(m, HEX) # 0 /\ Contains(out, Bytes("FF"))

\* C7 as stated: the parameter stack survives between runs and the host sees
\* it: after "1 2" forth_stack_position is two cells above the base of the
\* stack, and a later "+ ." prints 3
C7_StackSurvives ==
  /\ Evaluated(<< "1 2" >>) => forth_stack_position(o) = ParamBase + 2
  /\ Evaluated(<< "1 2", "+ ." >>) => out = Bytes("3")

\* C8 as stated: when the input ends in READ or in the name parse of ":" or
\* "find", the run returns 0, invalid stays false, and the next evaluation
\* processes its words normally: "1 2 + ." prints 3
C8_UsableAfterEof ==
  \A s \in {"1 2", ":", "find"} :
    /\ Evaluated(<< s >>) => ret = 0 /\ ~o.invalid
    /\ Evaluated(<< s, "1 2 + ." >>) => ret = 0 /\ ~o.invalid /\ out = Bytes("3")

\* the names of some words defined with ":" and not marked immediate: by the
\* startup program (state, here) and by the host's input (sq)
C9_Names == {Bytes("state"), Bytes("here"), Bytes("sq")}

\* C9, for the word DEFINE has just compiled (its name is the string at o->s)
\* and for the words of C9_Names once they are defined
C9_Step ==
  /\ About(DEFINE_) /\ at' = "loop" =>
       /\ IsWord(m', CString(m', STRING_OFFSET * CellBytes), COMPILE)
       /\ find(m', o.core_size) = Rd(m', PWD)
  /\ m' # m => \A s \in C9_Names : IsWord(m, s, COMPILE) => IsWord(m', s, COMPILE)

\* C9: from the moment DEFINE has compiled the header of a word not marked
\* immediate, find returns a non-zero index w for its name, and m[w + 1]
\* holds COMPILE in its low 7 bits, the hidden bit clear, and the name's
\* length in cells from bit 8 on
C9_ColonWordFound == [][C9_Step]_vars

\* ": sq dup * ; 7 sq ." has defined sq, run it and printed 49
C9_Witness ==
  /\ Evaluated(<< ": sq dup * ; 7 sq ." >>)
  /\ IsWord(m, Bytes("sq"), COMPILE) /\ out = Bytes("49")

\* C10, for IMMEDIATE dispatched right after DEFINE, when m[DIC] - 2 is the
\* code cell of the latest word w: its low 7 bits become RUN, its other bits
\* stay, and m[DIC], where the body will start, becomes w + 2
C10_Step ==
  About(IMMEDIATE) /\ Rd(m, DIC) - 2 = Rd(m, PWD) + 1 /\ at' # "ub" =>
    /\ Rd(m', PWD) = Rd(m, PWD)
    /\ b(Rd(m', Rd(m, PWD) + 1)) = RUN
    /\ Rd(m', Rd(m, PWD) + 1) \div 128 = Rd(m, Rd(m, PWD) + 1) \div 128
    /\ Rd(m', DIC) = Rd(m, PWD) + 2

\* C10, for ": foo immediate 42 ;": foo is found at some w, m[w + 1] holds RUN
\* and the length of the name, and the body (the literal 42) starts at w + 2
C10_Foo ==
  Evaluated(<< ": foo immediate 42 ;" >>) =>
    /\ IsWord(m, Bytes("foo"), RUN)
    /\ Rd(m, find_str(m, o.core_size, Bytes("foo")) + 2) = 2
    /\ Rd(m, find_str(m, o.core_size, Bytes("foo")) + 3) = 42

\* C10: after ": foo immediate ... ;" find(foo) returns a non-zero w, m[w + 1]
\* holds RUN in its low 7 bits with the name-length bits unchanged, and the
\* body of foo starts at w + 2
C10_ImmediateRoundTrip == [](C10_Foo) /\ [][C10_Step]_vars

\* ": foo immediate 42 ;" has been evaluated and foo is an immediate word
C10_Witness ==
  /\ Evaluated(<< ": foo immediate 42 ;" >>)
  /\ IsWord(m, Bytes("foo"), RUN) /\ ret = 0


\* READ is about to run and the input holds a further token
Reading == About(READ) /\ ~forth_get_word(o).over /\ forth_get_word(o).r >= 0

\* the token READ is about to take
Token == forth_get_word(o).word

\* the parameter stack after a push of x onto the stack of the state before
Pushed(x) ==
  /\ S' = S + 1 /\ Rd(m', S') = f /\ f' = x
  /\ \A i \in ParamBase..S : Rd(m', i) = Rd(m, i)

\* the cells whose literals are evaluated
C11_Cells == {0, 1, 7, 9, 10, 31, 255, 4095, 12345, 32767, 32768, 65531, 65535}

\* the pure part: a cell's decimal and hexadecimal spellings are numbers to
\* is_number and strtol gives the cell back; with a sign, its negation
C11_Literals ==
  \A n \in 0..UINT16_MAX :
     /\ is_number(FmtU(n)) /\ strtol(FmtU(n)) = n
     /\ is_number(Bytes("0x") \o Fmtx(n)) /\ strtol(Bytes("0x") \o Fmtx(n)) = n
     /\ is_number(Bytes("0x") \o FmtX(n)) /\ strtol(Bytes("0x") \o FmtX(n)) = n
     /\ is_number(Bytes("-") \o FmtU(n))
     /\ strtol(Bytes("-") \o FmtU(n)) = (CellMod - n) % CellMod

\* a READ step in interpret mode whose token spells the cell n, and no word
C11_Step ==
  (Reading /\ Rd(m, STATE_) = 0 /\ find_str(m, o.core_size, Token) = 0) =>
     \A n \in C11_Cells :
        /\ Token \in {FmtU(n), Bytes("0x") \o Fmtx(n), Bytes("0x") \o FmtX(n)}
             => Pushed(n) /\ Rd(m', DIC) = Rd(m, DIC) /\ at' = "loop"
        /\ (n > 0 /\ Token = Bytes("-") \o FmtU(n))
             => Pushed(CellMod - n) /\ Rd(m', DIC) = Rd(m, DIC) /\ at' = "loop"

\* C11: in interpret mode the decimal literal of a cell n, or its 0x
\* hexadecimal literal, when no word has that spelling, pushes the previous
\* top and leaves n as the new top with m[DIC] unchanged; -k leaves 2^16 - k.
\* The conversions are checked for every cell once, in the state forth_init
\* returns (they do not depend on the state).
C11_NumberRoundTrip ==
  /\ []((at = "host" /\ calls = 0) => C11_Literals)
  /\ [][C11_Step]_vars

\* the literals of 0, 12345, 31, -5, 65535, 65535, 7 and -1 were evaluated
C11_Witness ==
  /\ at = "loop" /\ evals = << "0 12345 0x1f -5 65535 0xFFFF 7 -1" >>
  /\ last = "READ" /\ f = 65535 /\ S = ParamBase + 8
  /\ [i \in 1..8 |-> Rd(m, ParamBase + i)] = << 0, 0, 12345, 31, 65531, 65535, 65535, 7 >>

\* the cells of the buffer o->s, where READ stores the token
StringCells == STRING_OFFSET..(STRING_OFFSET + MAX_WORD_LENGTH \div CellBytes - 1)

\* the step changes no cell of the image outside the set cells
OnlyCells(cells) ==
  \A i \in (DOMAIN m \cup DOMAIN m') \ cells : Rd(m', i) = Rd(m, i)

\* C12, for one READ step whose token is neither a word nor a number, in
\* either mode: the diagnostic is written, the loop goes on with the next
\* cell of the instruction stream, and of the image only m[RSTK] (READ's own
\* decrement) and the buffer o->s have changed
C12_Step ==
  (Reading /\ find_str(m, o.core_size, Token) = 0 /\ ~is_number(Token)) =>
     /\ at' = "loop" /\ ~o'.invalid /\ I' = I
     /\ f' = f /\ S' = S
     /\ OnlyCells({RSTK} \cup StringCells)
     /\ err' = Append(err, "is not a word") /\ out' = out
     /\ o'.sidx = forth_get_word(o).sidx

\* C12, for the tokens after the unknown one: in interpret mode "1 2 + ." still
\* prints 3, and in compile mode the definition of t goes on and t pushes 7
C12_Rest ==
  /\ Evaluated(<< "nosuch 1 2 + ." >>) => ret = 0 /\ ~o.invalid /\ out = Bytes("3")
  /\ Evaluated(<< ": t nosuch 7 ; t ." >>) => ret = 0 /\ ~o.invalid /\ out = Bytes("7")

\* C12: a token that is neither a defined word nor a number is reported and
\* skipped in interpret and in compile mode; the parameter stack, m[DIC],
\* m[PWD], m[STATE] and the dictionary stay as they were, invalid stays clear,
\* and the next token is processed normally
C12_UnknownTokenSkipped == [](C12_Rest) /\ [][C12_Step]_vars

\* "nosuch" was reported while t was being compiled, and t was then run
C12_Witness ==
  /\ Evaluated(<< ": t nosuch 7 ; t ." >>)
  /\ err = << "is not a word" >> /\ out = Bytes("7")

\* C13, for one JMPZ step: the flag is consumed, and the instruction pointer
\* moves by the offset in the next cell when the flag is 0 and past that
\* cell otherwise; for one JMP step: it moves by the offset, the stack stays
C13_Step ==
  /\ (About(Op("JMPZ")) /\ at' = "loop") =>
        /\ I' = (IF f = 0 THEN (I + Rd(m, I)) % CellMod ELSE I + 1)
        /\ f' = Rd(m, S) /\ S' = S - 1 /\ m' = m
  /\ (About(Op("JMP")) /\ at' = "loop") =>
        I' = (I + Rd(m, I)) % CellMod /\ f' = f /\ S' = S /\ m' = m

\* C13, for whole programs: with the flag 0 only B (push 2) runs, with a
\* non-zero flag only A (push 1); the 3 after "then" is pushed in both cases,
\* above the branch's value and the 9 that lay under the flag
C13_Programs ==
  /\ Evaluated(<< ": t 0 if 1 else 2 then . ; t" >>) => ret = 0 /\ out = Bytes("2")
  /\ Evaluated(<< ": t 1 if 1 else 2 then . ; t" >>) => ret = 0 /\ out = Bytes("1")
  /\ Evaluated(<< ": t if 1 else 2 then 3 ; 9 0 t . . ." >>) =>
        ret = 0 /\ out = Bytes("329")
  /\ Evaluated(<< ": t if 1 else 2 then 3 ; 9 5 t . . ." >>) =>
        ret = 0 /\ out = Bytes("319")

\* C13: a word compiled from "if A else B then" pops the flag and runs
\* exactly one branch, B when the flag is 0 and A otherwise, and goes on
\* after "then"
C13_IfElseThen == [](C13_Programs) /\ [][C13_Step]_vars

\* t has taken the A branch for the flag 5, with 9 below the flag
C13_Witness ==
  Evaluated(<< ": t if 1 else 2 then 3 ; 9 5 t . . ." >>) /\ out = Bytes("319")

\* the countdown program of C14
C14_Program == ": cd 5 begin dup . 1 - dup 0 = until drop ; cd"

\* the first cell after "begin" in the body of cd: the RUN cell at w + 2 is
\* followed by the two cells of the literal 5
C14_Begin == find_str(m, o.core_size, Bytes("cd")) + 5

\* the outputs at the end of the loop body: one more number each time round
C14_Rounds == { Bytes("5"), Bytes("54"), Bytes("543"), Bytes("5432"), Bytes("54321") }

\* C14, for the JMPZ that "until" compiled: its offset cell holds begin's
\* address minus its own, modulo 2^16; with the flag 0 the loop goes round to
\* the first cell after "begin", and it is left with a non-zero flag once 1
\* has been printed
C14_Step ==
  (evals = << C14_Program >> /\ About(Op("JMPZ")) /\ at' = "loop") =>
     /\ Rd(m, I) = (C14_Begin - I) % CellMod
     /\ out \in C14_Rounds
     /\ f = 0 => I' = C14_Begin /\ out # Bytes("54321")
     /\ f # 0 => I' = I + 1 /\ out = Bytes("54321")

\* C14, for the whole run: it returns 0 having printed 5, 4, 3, 2, 1 in that
\* order, each as its digits alone, and READ finds the stack as it was before
\* cd (empty, with the initial 0 in the cached top)
C14_Output ==
  /\ Evaluated(<< C14_Program >>) => ret = 0 /\ out = Bytes("54321")
  /\ (evals = << C14_Program >> /\ About(READ) /\ out = Bytes("54321")) =>
        S = ParamBase /\ f = 0

\* C14 as stated: the output begins with 5 4 3 2 1, the numbers separated by
\* spaces
C14_OutputSpaced ==
  Evaluated(<< C14_Program >>) =>
    ret = 0 /\ Len(out) >= 9 /\ SubSeq(out, 1, 9) = Bytes("5 4 3 2 1")

\* the run of the countdown program never stops short of its return: no
\* undefined behaviour, no failed assertion
C14_Runs == evals = << C14_Program >> => at \in {"loop", "inner", "host"}

\* C14, amended: the run of the program returns 0 and its output is 54321
\* (PNUM writes no separator); the loop body runs once per value 5, 4, 3, 2,
\* 1, at most five times, the offset compiled by "until" leads back to the
\* first cell after "begin", the loop exits on the non-zero flag and the
\* stack depth is as before cd.  The steps of a run are deterministic, so
\* the run that reaches the return is the only one there is.
C14_Countdown == [](C14_Output /\ C14_Runs) /\ [][C14_Step]_vars

\* the countdown has run to its end
C14_Witness == Evaluated(<< C14_Program >>) /\ ret = 0 /\ out = Bytes("54321")

\* READ has just found the word at o->s and the interpreter is about to
\* dispatch the cell READ chose
Found_(w) == at = "inner" /\ last = "READ" /\ w = find(m, o.core_size) /\ w > 0

\* C15, for the READ step on a token that names a word w: READ changes
\* neither the stack nor the dictionary, and hands over to the code cell
\* w + 1, or to the body cell w + 2 when the code is COMPILE and STATE is 0
C15_Read ==
  (Reading /\ find_str(m, o.core_size, Token) > 0) =>
     LET w == find_str(m, o.core_size, Token)
     IN  /\ at' = "inner" /\ f' = f /\ S' = S /\ I' = I
         /\ OnlyCells({RSTK} \cup StringCells)
         /\ pc' = (IF Rd(m, STATE_) = 0 /\ b(Rd(m, w + 1)) = COMPILE
                     THEN w + 2 ELSE w + 1)

\* C15 (a), for the step after READ in compile mode on a word w whose code
\* is COMPILE: one cell holding w + 2 is appended at m[DIC], and nothing else
\* changes
C15_Compile ==
  \A w \in {pc - 1} :
     (Found_(w) /\ Rd(m, STATE_) # 0 /\ b(Rd(m, pc)) = COMPILE) =>
        /\ at' = "loop" /\ f' = f /\ S' = S /\ I' = I
        /\ Rd(m', DIC) = Rd(m, DIC) + 1 /\ Rd(m', Rd(m, DIC)) = w + 2
        /\ OnlyCells({DIC, Rd(m, DIC)})

\* C15 (b), (c), for the step after READ otherwise: the cell dispatched is
\* the body cell w + 2 of a COMPILE word in interpret mode, and the code cell
\* w + 1 of a word with another code, in both modes
C15_Execute ==
  \A w \in {pc - 1, pc - 2} :
     (Found_(w) /\ ~(Rd(m, STATE_) # 0 /\ b(Rd(m, w + 1)) = COMPILE)) =>
        IF b(Rd(m, w + 1)) = COMPILE
          THEN pc = w + 2 /\ Rd(m, STATE_) = 0
          ELSE pc = w + 1 /\ b(Rd(m, pc)) \in {RUN, DEFINE_, IMMEDIATE, COMMENT}

\* the program of C15: x is immediate, y is compiled from x alone
C15_Program == ": x immediate 42 ; : y x ; y"

\* C15, for the program: x ran while y was compiled and left 42, and the
\* body of y is the RUN cell and the reference to exit that ";" compiled
C15_Immediate ==
  Evaluated(<< C15_Program >>) =>
     LET x == find_str(m, o.core_size, Bytes("x"))
         y == find_str(m, o.core_size, Bytes("y"))
     IN  /\ ret = 0 /\ o.top = 42 /\ out = << >>
         /\ IsWordAt(m, x, 1, RUN) /\ IsWordAt(m, y, 1, COMPILE)
         /\ Rd(m, DIC) = y + 4
         /\ Rd(m, y + 2) = RUN
         /\ Rd(m, y + 3) = find_str(m, o.core_size, Bytes("exit")) + 2

\* C15: READ's dispatch of a word it found: (a) code COMPILE in compile mode:
\* not executed, one cell w + 2 appended; (b) code COMPILE in interpret mode:
\* the body at w + 2 is executed, nothing appended; (c) any other code: the
\* word is executed in both modes and no reference is compiled
C15_ReadDispatch ==
  /\ [](C15_Execute /\ C15_Immediate)
  /\ [][C15_Read /\ C15_Compile]_vars

\* x has just pushed 42 while y is being compiled
C15_Witness ==
  /\ evals = << C15_Program >> /\ Rd(m, STATE_) = 1 /\ f = 42
  /\ at = "loop" /\ last = "PUSH"
  /\ find_str(m, o.core_size, Bytes("y")) > 0

\* C16, for one IMMEDIATE step: with w = m[PWD] the latest word, the low 7
\* bits of its code cell m[w + 1] become RUN, the cell's other bits stay, and
\* no other cell of the dictionary changes (m[DIC] is a register)
C16_Step ==
  (About(IMMEDIATE) /\ at' = "loop") =>
     /\ b(Rd(m', Rd(m, PWD) + 1)) = RUN
     /\ Rd(m', Rd(m, PWD) + 1) \div 128 = Rd(m, Rd(m, PWD) + 1) \div 128
     /\ OnlyCells({DIC, Rd(m, PWD) + 1})

\* C16 as stated: at every point where IMMEDIATE executes, the cell it
\* rewrites is the code cell of the most recently defined word, and no cell
\* of a body or of an earlier header is modified
C16_ImmediateMarksLatest == [][C16_Step]_vars

\* the cell whose dispatch executes the word w: the body cell w + 2 of a
\* word whose code is COMPILE (the opcode cell of a built-in, the RUN cell of
\* a colon word), and the code cell w + 1 of any other word
Reference(mem, w) == IF b(Rd(mem, w + 1)) = COMPILE THEN w + 2 ELSE w + 1

\* C17, for one FIND step whose token is t: the previous top is pushed, and
\* the new top is the reference to the word t names, or 0 when there is none
C17_Step ==
  (About(Op("FIND")) /\ ~forth_get_word(o).over /\ forth_get_word(o).r >= 0
     /\ at' = "loop") =>
     LET w == find_str(m, o.core_size, Token)
     IN  /\ S' = S + 1 /\ Rd(m', S') = f
         /\ f' = (IF w > 0 THEN Reference(m, w) ELSE 0)

\* C17, for the startup word "::", which is compiled from "[ find : , ]":
\* it defines a word as ":" does
C17_ColonColon ==
  Evaluated(<< ":: foo 1 ; foo ." >>) => ret = 0 /\ out = Bytes("1")

\* C17 as stated: for every word in the dictionary FIND leaves a reference
\* whose dispatch executes the word, so that "[ find NAME , ]" compiles a call
\* to NAME; for an absent name it leaves 0
C17_FindGivesReference == [](C17_ColonColon) /\ [][C17_Step]_vars

\* the link indices of the words of the dictionary, from w back along the
\* links as long as they lead downwards
RECURSIVE WordsFrom(_, _)
WordsFrom(mem, w) ==
  IF w <= DICTIONARY_START THEN {}
  ELSE IF Rd(mem, w) >= w THEN {w}
  ELSE {w} \cup WordsFrom(mem, Rd(mem, w))

\* the words that are not hidden and whose name is byte for byte the name s
Spelled(mem, s) ==
  { w \in WordsFrom(mem, Rd(mem, PWD)) :
      NameOf(mem, w) = s /\ ~WORD_HIDDEN(Rd(mem, w + 1)) }

\* the greatest of a set of indices, 0 for the empty set: words are compiled
\* at increasing indices, so the greatest is the newest
Greatest(ws) == IF ws = {} THEN 0 ELSE CHOOSE w \in ws : \A u \in ws : u <= w

\* C18, for the lookups of READ and for the state a run returns in: find
\* gives the newest word spelled as the token, or 0
C18_Lookup ==
  /\ Reading => find_str(m, o.core_size, Token) = Greatest(Spelled(m, Token))
  /\ (Returned /\ ret = 0) =>
        \A s \in {Bytes("a"), Bytes("A"), Bytes("dup"), Bytes("DUP"), Bytes("du"),
                  Bytes(":"), Bytes("nosuch")} :
           find_str(m, o.core_size, s) = Greatest(Spelled(m, s))

\* the redefinition program of C18
C18_Program == ": a 1 ; : b a ; : a 2 ; a . b ."

\* C18, for the redefinition: there are two words a; find gives the later
\* one, which pushes 2; the reference in the body of b still is the body of
\* the earlier one, and b pushes 1
C18_Redefined ==
  Evaluated(<< C18_Program >>) =>
     LET as  == Spelled(m, Bytes("a"))
         bw  == find_str(m, o.core_size, Bytes("b"))
     IN  /\ ret = 0 /\ out = Bytes("21")
         /\ Cardinality(as) = 2
         /\ find_str(m, o.core_size, Bytes("a")) = Greatest(as)
         /\ Rd(m, bw + 3) = Greatest(as \ {Greatest(as)}) + 2

\* C18, for names that differ in case only: a and A are two words
C18_Case ==
  Evaluated(<< ": a 1 ; : A 2 ; a . A ." >>) =>
     /\ ret = 0 /\ out = Bytes("12")
     /\ find_str(m, o.core_size, Bytes("a")) < find_str(m, o.core_size, Bytes("A"))

\* C18: find returns the newest word that is not hidden and whose name equals
\* the sought name byte for byte, or 0; after a redefinition lookups give the
\* new word and references compiled before keep pointing at the old body
C18_FindNewest == C18_Lookup /\ C18_Redefined /\ C18_Case

\* a has been redefined after b was compiled from it, and both were run
C18_Witness ==
  /\ Evaluated(<< C18_Program >>) /\ out = Bytes("21")
  /\ Cardinality(Spelled(m, Bytes("a"))) = 2

\* C19 as stated: the return stack is balanced across the read-execute cycle
\* and across runs.  forth_init sets m[RSTK] to the base of the return stack
\* before it evaluates the startup program, so without drift m[RSTK] is that
\* base every time the READ of the special word starts on a token and every
\* time a run has returned 0 (no program here stores to m[RSTK])
C19_ReturnStackBalanced ==
  /\ (About(READ) /\ pc = DICTIONARY_START) => Rd(m, RSTK) = ReturnBase
  /\ (Returned /\ ret = 0) => Rd(m, RSTK) = ReturnBase

\* the interpreter is about to execute a primitive that calls forth_get_word
\* (READ, FIND, and DEFINE through compile) on a string
Tokenizing ==
  o.stringin /\ (About(READ) \/ About(Op("FIND")) \/ About(DEFINE_))

\* C20 as stated: in string-input mode every call of forth_get_word starts
\* with the cursor at or before the terminating NUL, sidx <= strlen(s), also
\* in programs that use "key" or end in a "\" comment without a newline, and
\* the run returns 0 once the string is exhausted
C20_CursorWithinString ==
  /\ Tokenizing => o.sidx <= SinLen(o)
  /\ (Returned /\ call = "forth_eval" /\ evals \in {<< "1 . \\ c" >>, << "1 . key" >>})
        => ret = 0
  /\ evals \in {<< "1 . \\ c" >>, << "1 . key" >>} => at # "ub"
=============================================================================
